---------------------------- MODULE Spec2Model ----------------------------
(***************************************************************************)
(* MiV-OS: the pipeline executor (miv/core/pipeline.py), the threshold     *)
(* crossing detector (miv/signal/spike/detection.py) and the burst         *)
(* statistics (miv/statistics/burst.py).                                   *)
(*                                                                         *)
(* Three specifications share the module:                                  *)
(*   Spec        chaining nodes, constructing a Pipeline, run, summarize   *)
(*   SpecDetect  ThresholdCutoff.detect_threshold_crossings on signals     *)
(*   SpecBurst   burst on spike trains                                     *)
(***************************************************************************)
EXTENDS Integers, Sequences, FiniteSets, TLC

\* ------------------------------------------------------------------ bounds
MaxNodes == 3         \* nodes of the pipeline specification
MaxChains == 2        \* chain calls of the pipeline specification
MaxCalls == 2         \* calls of Pipeline.run
MaxGraphNodes == 4    \* nodes of the graph specification
MaxGraphChains == 4   \* chain calls of the graph specification
MaxSignalLen == 5     \* samples of a signal
MaxDeadTime == 2      \* the dead times tried: 0..MaxDeadTime
MaxTime == 7          \* spike times are drawn from 1..MaxTime
MaxMinIsi == 2        \* min_isi is drawn from 1..MaxMinIsi
MaxMinLen == 2        \* min_len is drawn from 1..MaxMinLen

\* ------------------------------------------------------------ the pipeline
VARIABLES
    upstream,         \* node -> the ordered list of its upstream dependencies
    cache_policy,     \* node -> node.cacher.cache_policy, "none": no cacher
    built,            \* a Pipeline has been constructed
    execution_order,  \* Pipeline.execution_order
    calls,            \* calls of Pipeline.run made so far
    last_run,         \* what the last call of Pipeline.run did
    summary           \* what the last call of Pipeline.summarize returned

pipeVars == <<upstream, cache_policy, built, execution_order, calls, last_run,
              summary>>

\* -------------------------------------------------- the crossing detector
VARIABLES
    signal,               \* the samples of one channel
    fs,                   \* the sampling frequency
    threshold,            \* the spike threshold
    dead_time,            \* the dead time
    det_pc,               \* where detect_threshold_crossings stands
    threshold_crossings,  \* its local of that name (0-based indices)
    distance_sufficient   \* its local of that name

detVars == <<signal, fs, threshold, dead_time, det_pc, threshold_crossings,
             distance_sufficient>>

\* ------------------------------------------------------ burst statistics
VARIABLES
    spiketrain,   \* spiketrains[channel].magnitude: the spike times
    min_isi,      \* the largest interval of a burst
    min_len,      \* the least number of intervals of a burst
    burst_pc,     \* where burst stands
    burst_spike,  \* its local of that name
    burst_i,      \* the loop variable i (0-based)
    burst_Q,      \* the list `burst`, Q once the loop is over
    burst_out     \* what burst returned

burstVars == <<spiketrain, min_isi, min_len, burst_pc, burst_spike, burst_i,
               burst_Q, burst_out>>

vars == <<pipeVars, detVars, burstVars>>

\* The nodes user code has created.
Nodes == DOMAIN upstream

\* The string form of a node, str(node): its tag.
Tags == <<"A", "B", "C", "D", "E", "F">>

Str(node) == Tags[node]

NoRun == [called |-> FALSE, no_cache |-> FALSE, verbose |-> FALSE,
          failing |-> {}, events |-> <<>>, raised |-> 0]

NoSummary == "(not called)"

Range(s) == {s[i] : i \in 1..Len(s)}

\* ---- chaining (miv.core.operator.chainable)

RECURSIVE Ancestors(_, _, _)
\* The transitive upstream dependencies of the nodes in `todo`.
Ancestors(up, todo, seen) ==
    IF todo = {} THEN seen
    ELSE LET n == CHOOSE x \in todo : TRUE
             new == Range(up[n]) \ seen
         IN Ancestors(up, (todo \ {n}) \cup new, seen \cup new)

Upstream(up, n) == Ancestors(up, {n}, {})

\* chain(self, other) would make a node depend on itself.
WouldCycle(up, self, other) == self = other \/ other \in Upstream(up, self)

RECURSIVE EdgesUpTo(_, _)
EdgesUpTo(up, n) == IF n = 0 THEN 0 ELSE Len(up[n]) + EdgesUpTo(up, n - 1)

\* The chain calls that registered an edge.
NumEdges(up) == EdgesUpTo(up, Cardinality(DOMAIN up))

RECURSIVE Visit(_, _, _)
RECURSIVE VisitAll(_, _, _)
\* Depth-first post-order over the upstream edges, no node twice.
Visit(up, n, order) ==
    IF n \in Range(order) THEN order
    ELSE Append(VisitAll(up, up[n], order), n)

VisitAll(up, deps, order) ==
    IF deps = <<>> THEN order
    ELSE VisitAll(up, Tail(deps), Visit(up, Head(deps), order))

topological_sort(up, node) == Visit(up, node, <<>>)

\* ---- Pipeline (miv/core/pipeline.py)

Reverse(s) == [i \in 1..Len(s) |-> s[Len(s) + 1 - i]]

PipelineInitReversed(up, node) == Reverse(topological_sort(up, node))

\* Pipeline.__init__: the execution order is the terminal node's sort.
PipelineInit(up, node) == topological_sort(up, node)

NodeAtFromEnd(order, k) == order[Len(order) + 1 - k]

\* for node in self.execution_order: the node of the k-th iteration.
NodeAt(order, k) == order[k]

\* hasattr(node, "cacher")
HasCacher(policy, node) == policy[node] /= "none"

PolicyForSwapped(no_cache) == IF no_cache THEN "AUTO" ELSE "OFF"

\* "OFF" if no_cache else "AUTO"
PolicyFor(no_cache) == IF no_cache THEN "OFF" ELSE "AUTO"

\* if hasattr(node, "cacher"): node.cacher.cache_policy = ...
SetPolicy(policy, node, no_cache) ==
    IF HasCacher(policy, node)
    THEN [policy EXCEPT ![node] = PolicyFor(no_cache)]
    ELSE policy

AbortsNever(node, failing) == FALSE

\* node.run(...) is called outside any try: what it raises leaves the loop
\* and Pipeline.run.
Aborts(node, failing) == node \in failing

PoliciesRestored(before, after) == before

\* The cache policies Pipeline.run leaves behind: those its loop set, no
\* statement of run puts the earlier ones back.
PoliciesLeft(before, after) == after

RuleWidth == 46

RECURSIVE Repeat(_, _)
\* s * n
Repeat(s, n) == IF n = 0 THEN "" ELSE s \o Repeat(s, n - 1)

RECURSIVE Join(_, _)
\* sep.join(strs)
Join(sep, strs) ==
    IF strs = <<>> THEN ""
    ELSE IF Len(strs) = 1 THEN strs[1]
    ELSE strs[1] \o sep \o Join(sep, Tail(strs))

\* strs after the loop of summarize, the enumeration starting at `start`.
SummaryLines(order, start) ==
    <<"Execution order:">> \o
    [i \in 1..Len(order) |-> ToString(i - 1 + start) \o ": " \o Str(order[i])]

summarize_from_one(order) == Join("\n", SummaryLines(order, 1))

\* Pipeline.summarize
summarize(order) == Join("\n", SummaryLines(order, 0))

\* One event of a call of Pipeline.run: a print, or the start, the return or
\* the raise of a node's run (with the node's cache policy at that moment).
Event(ev, node, policy, text) ==
    [ev |-> ev, node |-> node, policy |-> policy, text |-> text]

Printed(text, node) == Event("print", node, "", text)

\* print("Running: ", node): the arguments, separated by a space.
RunningLine(node) == "Running: " \o " " \o Str(node)

\* The statements after the loop. The text summarize() returns is dropped:
\* the call is an expression statement.
AfterLoop(events, verbose, order) ==
    IF verbose
    THEN events \o <<Printed("Pipeline done:", 0),
                     Printed(Repeat("-", RuleWidth), 0)>>
    ELSE events

RECURSIVE RunLoop(_, _, _, _)
\* Pipeline.run from the k-th iteration of its loop on.
\* st: the cache policies and the events so far.
RunLoop(order, k, st, args) ==
    IF k > Len(order)
    THEN [policy |-> st.policy,
          events |-> AfterLoop(st.events, args.verbose, order),
          raised |-> 0]
    ELSE LET node == NodeAt(order, k)
             ev0  == IF args.verbose
                     THEN Append(st.events, Printed(RunningLine(node), node))
                     ELSE st.events
             pol1 == SetPolicy(st.policy, node, args.no_cache)
             ev1  == Append(ev0, Event("start", node, pol1[node], ""))
         IN IF Aborts(node, args.failing)
            THEN [policy |-> pol1,
                  events |-> Append(ev1, Event("raise", node, pol1[node], "")),
                  raised |-> node]
            ELSE RunLoop(order, k + 1,
                         [policy |-> pol1,
                          events |-> Append(ev1, Event("return", node,
                                                       pol1[node], ""))],
                         args)

\* ---- actions

\* self.chain(other), self >> other; at most `limit` edges are registered
Chain(self, other, limit) ==
    /\ NumEdges(upstream) < limit
    /\ self \notin Range(upstream[other])
    /\ IF WouldCycle(upstream, self, other)
       THEN UNCHANGED upstream
       ELSE upstream' = [upstream EXCEPT ![other] = Append(@, self)]
    /\ UNCHANGED <<cache_policy, built, execution_order, calls, last_run,
                   summary>>
    /\ UNCHANGED <<detVars, burstVars>>

\* Pipeline(node)
Construct(node) ==
    /\ ~built
    /\ built' = TRUE
    /\ execution_order' = PipelineInit(upstream, node)
    /\ UNCHANGED <<upstream, cache_policy, calls, last_run, summary>>
    /\ UNCHANGED <<detVars, burstVars>>

\* Pipeline.run(no_cache=.., verbose=..); the run of the nodes in `failing`
\* raises
Run(no_cache, verbose, failing) ==
    /\ built
    /\ calls < MaxCalls
    /\ LET r == RunLoop(execution_order, 1,
                        [policy |-> cache_policy, events |-> <<>>],
                        [no_cache |-> no_cache, verbose |-> verbose,
                         failing |-> failing])
       IN /\ cache_policy' = PoliciesLeft(cache_policy, r.policy)
          /\ last_run' = [called |-> TRUE, no_cache |-> no_cache,
                          verbose |-> verbose, failing |-> failing,
                          events |-> r.events, raised |-> r.raised]
    /\ calls' = calls + 1
    /\ UNCHANGED <<upstream, built, execution_order, summary>>
    /\ UNCHANGED <<detVars, burstVars>>

\* Pipeline.summarize()
Summarize ==
    /\ built
    /\ summary' = summarize(execution_order)
    /\ UNCHANGED <<upstream, cache_policy, built, execution_order, calls,
                   last_run>>
    /\ UNCHANGED <<detVars, burstVars>>

\* What each node is built with: a cacher and its policy, or no cacher.
InitialCachers == <<"AUTO", "none", "ON", "OFF", "none", "AUTO">>

\* The nodes whose run raises in one call: none, or one of the order (a
\* second one would not be reached).
Failures(order) == {{}} \cup {{order[i]} : i \in 1..Len(order)}

PipeInit(n) ==
    /\ upstream = [x \in 1..n |-> <<>>]
    /\ cache_policy = [x \in 1..n |-> InitialCachers[x]]
    /\ built = FALSE
    /\ execution_order = <<>>
    /\ calls = 0
    /\ last_run = NoRun
    /\ summary = NoSummary

DetIdle ==
    /\ signal = <<>>
    /\ fs = 0
    /\ threshold = 0
    /\ dead_time = 0
    /\ det_pc = "idle"
    /\ threshold_crossings = <<>>
    /\ distance_sufficient = <<>>

BurstIdle ==
    /\ spiketrain = <<>>
    /\ min_isi = 0
    /\ min_len = 0
    /\ burst_pc = "idle"
    /\ burst_spike = <<>>
    /\ burst_i = 0
    /\ burst_Q = <<>>
    /\ burst_out = <<>>

Init == PipeInit(MaxNodes) /\ DetIdle /\ BurstIdle

Next ==
    \/ \E a, b \in Nodes : Chain(a, b, MaxChains)
    \/ \E n \in Nodes : Construct(n)
    \/ \E nc, vb \in BOOLEAN, f \in Failures(execution_order) : Run(nc, vb, f)
    \/ Summarize

Spec == Init /\ [][Next]_vars

\* ---- the graph specification: every graph chaining builds, every terminal
\* node, one quiet call of run

InitGraph == PipeInit(MaxGraphNodes) /\ DetIdle /\ BurstIdle

NextGraph ==
    \/ \E a, b \in Nodes : ~built /\ Chain(a, b, MaxGraphChains)
    \/ \E n \in Nodes : Construct(n)
    \/ \E nc \in BOOLEAN : Run(nc, FALSE, {})

SpecGraph == InitGraph /\ [][NextGraph]_vars

\* ------------- ThresholdCutoff.detect_threshold_crossings (detection.py)

\* x.astype(int) of one boolean
AsInt(b) == IF b THEN 1 ELSE 0

\* (signal <= threshold).astype(int) > 0
BelowMask(sig, thr) == [i \in 1..Len(sig) |-> AsInt(sig[i] <= thr) > 0]

\* np.diff of an integer array
DiffInt(a) == [i \in 1..(Len(a) - 1) |-> a[i + 1] - a[i]]

\* np.diff of a boolean array: numpy takes the difference of booleans as
\* not-equal, so an element is True where two neighbours differ.
DiffBool(mask) == [i \in 1..(Len(mask) - 1) |-> mask[i + 1] /= mask[i]]

RECURSIVE NonzeroFrom(_, _)
NonzeroFrom(mask, i) ==
    IF i > Len(mask) THEN <<>>
    ELSE (IF mask[i] THEN <<i - 1>> ELSE <<>>) \o NonzeroFrom(mask, i + 1)

\* a.nonzero()[0]: the 0-based indices of the True elements, ascending
Nonzero(mask) == NonzeroFrom(mask, 1)

\* np.diff((signal <= threshold).astype(int) > 0).nonzero()[0]
Crossings(sig, thr) == Nonzero(DiffBool(BelowMask(sig, thr)))

\* np.insert(np.diff(threshold_crossings) >= dead_time_idx, 0, True)
DistanceSufficient(tc, dead_time_idx) ==
    <<TRUE>> \o [i \in 1..(Len(tc) - 1) |-> DiffInt(tc)[i] >= dead_time_idx]

RECURSIVE MaskedFrom(_, _, _)
MaskedFrom(a, mask, i) ==
    IF i > Len(a) THEN <<>>
    ELSE (IF mask[i] THEN <<a[i]>> ELSE <<>>) \o MaskedFrom(a, mask, i + 1)

\* a[mask], mask a boolean array
Masked(a, mask) == MaskedFrom(a, mask, 1)

\* np.all(a)
All(a) == \A i \in 1..Len(a) : a[i]

\* dead_time_idx = dead_time * fs
DeadTimeIdx == dead_time * fs

\* the statements before the while loop
DetectCall ==
    /\ det_pc = "call"
    /\ threshold_crossings' = Crossings(signal, threshold)
    /\ distance_sufficient' =
           DistanceSufficient(Crossings(signal, threshold), DeadTimeIdx)
    /\ det_pc' = "while"
    /\ UNCHANGED <<signal, fs, threshold, dead_time>>
    /\ UNCHANGED <<pipeVars, burstVars>>

\* one turn of the while loop
DetectFilter ==
    /\ det_pc = "while"
    /\ ~All(distance_sufficient)
    /\ threshold_crossings' = Masked(threshold_crossings, distance_sufficient)
    /\ distance_sufficient' =
           DistanceSufficient(Masked(threshold_crossings, distance_sufficient),
                              DeadTimeIdx)
    /\ UNCHANGED <<signal, fs, threshold, dead_time, det_pc>>
    /\ UNCHANGED <<pipeVars, burstVars>>

\* return threshold_crossings
DetectReturn ==
    /\ det_pc = "while"
    /\ All(distance_sufficient)
    /\ det_pc' = "done"
    /\ UNCHANGED <<signal, fs, threshold, dead_time, threshold_crossings,
                   distance_sufficient>>
    /\ UNCHANGED <<pipeVars, burstVars>>

\* The thresholds are negative (compute_spike_threshold: -cutoff * noise); the
\* samples lie around them.
Thresholds == {-1}

Samples == {-2, -1, 0}

Rates == {1, 2}

PipeIdle ==
    /\ upstream = <<>>
    /\ cache_policy = <<>>
    /\ built = FALSE
    /\ execution_order = <<>>
    /\ calls = 0
    /\ last_run = NoRun
    /\ summary = NoSummary

InitDetect ==
    /\ signal \in UNION {[1..n -> Samples] : n \in 1..MaxSignalLen}
    /\ fs \in Rates
    /\ threshold \in Thresholds
    /\ dead_time \in 0..MaxDeadTime
    /\ det_pc = "call"
    /\ threshold_crossings = <<>>
    /\ distance_sufficient = <<>>
    /\ PipeIdle
    /\ BurstIdle

NextDetect == DetectCall \/ DetectFilter \/ DetectReturn

SpecDetect == InitDetect /\ [][NextDetect]_vars

\* ------------------------------------------------------- burst (burst.py)

\* (spike_interval <= min_isi).astype(np.int32)
BurstSpike(spikes, isi) == [i \in 1..(Len(spikes) - 1) |->
                               AsInt(DiffInt(spikes)[i] <= isi)]

RECURSIVE SumFrom(_, _, _)
SumFrom(a, lo, hi) == IF lo > hi THEN 0 ELSE a[lo] + SumFrom(a, lo + 1, hi)

Min(a, b) == IF a < b THEN a ELSE b

\* np.sum(a[lo:hi]), lo and hi 0-based, the slice cut at the end of a
SumSlice(a, lo, hi) == SumFrom(a, lo + 1, Min(hi, Len(a)))

\* a[lo:hi] = 0
ZeroSlice(a, lo, hi) ==
    [k \in 1..Len(a) |-> IF lo + 1 <= k /\ k <= Min(hi, Len(a)) THEN 0 ELSE a[k]]

RECURSIVE Extend(_, _, _, _, _)
\* the while loop of one burst: t when it is left
Extend(bs, i, m, q, t) ==
    IF q > 0 /\ i + q + m <= Len(bs) - 1
    THEN IF bs[(i + q + m - 1) + 1] = 1
         THEN Extend(bs, i, m, q + 1, q)
         ELSE t
    ELSE t

\* the statements before the for loop
BurstCall ==
    /\ burst_pc = "call"
    /\ burst_spike' = BurstSpike(spiketrain, min_isi)
    /\ burst_i' = 0
    /\ burst_Q' = <<>>
    /\ burst_pc' = "for"
    /\ UNCHANGED <<spiketrain, min_isi, min_len, burst_out>>
    /\ UNCHANGED <<pipeVars, detVars>>

\* one turn of the for loop over np.arange(len(burst_spike) - min_spikes)
BurstIter ==
    /\ burst_pc = "for"
    /\ burst_i < Len(burst_spike) - min_len
    /\ IF SumSlice(burst_spike, burst_i, burst_i + min_len) = min_len
       THEN LET t == Extend(burst_spike, burst_i, min_len, 1, 0)
            IN /\ burst_Q' = Append(burst_Q, <<burst_i, t + min_len>>)
               /\ burst_spike' =
                      ZeroSlice(burst_spike, burst_i, burst_i + t + min_len)
       ELSE UNCHANGED <<burst_Q, burst_spike>>
    /\ burst_i' = burst_i + 1
    /\ UNCHANGED <<spiketrain, min_isi, min_len, burst_pc, burst_out>>
    /\ UNCHANGED <<pipeVars, detVars>>

RECURSIVE SumQ(_)
\* np.sum(Q)
SumQ(Q) == IF Q = <<>> THEN 0 ELSE Q[1][1] + Q[1][2] + SumQ(Tail(Q))

\* the statements after the for loop: four scalars 0, or four arrays with an
\* element per burst; burst_rate is kept as the pair (burst_len,
\* burst_duration) it is the quotient of
BurstResult(spikes, Q) ==
    IF SumQ(Q) = 0
    THEN [scalars |-> TRUE, start_time |-> 0, burst_duration |-> 0,
          burst_len |-> 0, burst_rate |-> 0]
    ELSE LET start == [k \in 1..Len(Q) |-> spikes[Q[k][1] + 1]]
             end   == [k \in 1..Len(Q) |-> spikes[Q[k][1] + Q[k][2] + 1]]
             len   == [k \in 1..Len(Q) |-> Q[k][2] + 1]
             dur   == [k \in 1..Len(Q) |-> end[k] - start[k]]
         IN [scalars |-> FALSE, start_time |-> start, burst_duration |-> dur,
             burst_len |-> len,
             burst_rate |-> [k \in 1..Len(Q) |-> <<len[k], dur[k]>>]]

\* the for loop is over: Q, the four results, return
BurstReturn ==
    /\ burst_pc = "for"
    /\ burst_i >= Len(burst_spike) - min_len
    /\ burst_out' = BurstResult(spiketrain, burst_Q)
    /\ burst_pc' = "done"
    /\ UNCHANGED <<spiketrain, min_isi, min_len, burst_spike, burst_i, burst_Q>>
    /\ UNCHANGED <<pipeVars, detVars>>

RECURSIVE Ascending(_)
\* the times of a set of spikes, in order
Ascending(S) ==
    IF S = {} THEN <<>>
    ELSE LET lo == CHOOSE x \in S : \A y \in S : x <= y
         IN <<lo>> \o Ascending(S \ {lo})

InitBurst ==
    /\ spiketrain \in {Ascending(S) : S \in SUBSET (1..MaxTime)}
    /\ min_isi \in 1..MaxMinIsi
    /\ min_len \in 1..MaxMinLen
    /\ burst_pc = "call"
    /\ burst_spike = <<>>
    /\ burst_i = 0
    /\ burst_Q = <<>>
    /\ burst_out = <<>>
    /\ PipeIdle
    /\ DetIdle

NextBurst == BurstCall \/ BurstIter \/ BurstReturn

SpecBurst == InitBurst /\ [][NextBurst]_vars

\* ------------------------------------------------- claims on the pipeline

IsRunEvent(e) == e.ev /= "print"

\* The starts, returns and raises of the last call, in the order they happened.
RunEvents == SelectSeq(last_run.events, IsRunEvent)

\* The index of `node` in `order`, 0 when it is not in it.
IndexOf(order, node) ==
    IF node \in Range(order)
    THEN CHOOSE i \in 1..Len(order) : order[i] = node
    ELSE 0

\* The events are the complete runs of order[1..k], one after the other.
RanInOrder(ev, order, k) ==
    \A i \in 1..k :
        /\ ev[2 * i - 1].ev = "start" /\ ev[2 * i - 1].node = order[i]
        /\ ev[2 * i].ev = "return" /\ ev[2 * i].node = order[i]

RunStep == calls' = calls + 1

\* C1: a call of Pipeline.run that raises nothing runs exactly the nodes of
\* execution_order, one run per position, in ascending index, each starting
\* after the previous one returned; this holds for later calls and after
\* nodes were chained once the Pipeline was built, and no step changes the
\* execution_order of a built Pipeline.
C1_RunFollowsFrozenOrder ==
    /\ [](last_run.called /\ last_run.raised = 0 =>
            /\ Len(RunEvents) = 2 * Len(execution_order)
            /\ RanInOrder(RunEvents, execution_order, Len(execution_order)))
    /\ [][built => execution_order' = execution_order]_vars

\* A second call that raised nothing, on a three-node order that the graph as
\* chained since would no longer give.
C1_Witness ==
    /\ calls = 2
    /\ last_run.raised = 0
    /\ Len(execution_order) >= 2
    /\ \A n \in Nodes : topological_sort(upstream, n) /= execution_order

\* C3: when a node with a cacher starts its run the cacher's policy is OFF
\* under no_cache and AUTO otherwise, whatever it was; a node without a
\* cacher starts with no policy and never gets one.
C3_PolicySetBeforeRun ==
    /\ last_run.called =>
         \A i \in 1..Len(last_run.events) :
            LET e == last_run.events[i]
            IN e.ev = "start" =>
                 e.policy = IF InitialCachers[e.node] = "none" THEN "none"
                            ELSE IF last_run.no_cache THEN "OFF"
                            ELSE "AUTO"
    /\ \A n \in Nodes : InitialCachers[n] = "none" => cache_policy[n] = "none"

\* A second call, without no_cache, that started the node built with policy
\* ON and a node without cacher.
C3_Witness ==
    /\ calls = 2
    /\ ~last_run.no_cache
    /\ \E i, j \in 1..Len(last_run.events) :
          /\ last_run.events[i] = Event("start", 3, "AUTO", "")
          /\ last_run.events[j] = Event("start", 2, "none", "")

\* C4: when the run of the node at index k raises, Pipeline.run raises the
\* same error: the nodes before k have run to their end, k started and
\* raised, nothing happens after it (no later node starts, nothing is
\* printed), the policies of the later nodes are the ones from before the
\* call and those of the nodes up to k stay as the call set them.
C4_RaiseAborts ==
    /\ [](last_run.called /\ last_run.failing /= {} =>
            LET node == CHOOSE n \in last_run.failing : TRUE
                k == IndexOf(execution_order, node)
                ev == RunEvents
            IN /\ last_run.raised = node
               /\ Len(ev) = 2 * k
               /\ RanInOrder(ev, execution_order, k - 1)
               /\ ev[2 * k - 1].ev = "start" /\ ev[2 * k - 1].node = node
               /\ ev[2 * k].ev = "raise" /\ ev[2 * k].node = node
               /\ last_run.events[Len(last_run.events)] = ev[2 * k])
    /\ [][RunStep /\ last_run'.raised /= 0 =>
            LET k == IndexOf(execution_order, last_run'.raised)
            IN \A j \in 1..Len(execution_order) :
                 LET n == execution_order[j]
                 IN cache_policy'[n] =
                      IF j > k \/ InitialCachers[n] = "none"
                      THEN cache_policy[n]
                      ELSE IF last_run'.no_cache THEN "OFF" ELSE "AUTO"]_vars

\* The second of three nodes raised under no_cache: the first is left OFF,
\* the third keeps the ON it was built with.
C4_Witness ==
    /\ execution_order = <<1, 2, 3>>
    /\ last_run.raised = 2
    /\ last_run.no_cache
    /\ cache_policy[1] = "OFF"
    /\ cache_policy[3] = "ON"

\* The text the summary of the order is: the header, then "{i}: {node}" for
\* each node, i from 0.
RECURSIVE ExpectedSummaryFrom(_, _)
ExpectedSummaryFrom(order, i) ==
    IF i > Len(order) THEN ""
    ELSE "\n" \o ToString(i - 1) \o ": " \o Tags[order[i]]
         \o ExpectedSummaryFrom(order, i + 1)

\* C5: under verbose each node's identity is printed right before the node
\* starts and, when no node raised, the summary of the execution order (its
\* header and its "index: node" lines) is printed after the last node
\* returned; a call without verbose that raises nothing prints nothing.
C5_VerboseEmitsSummary ==
    last_run.called =>
      LET ev == last_run.events
          printsSummary(j) ==
              /\ ev[j].ev = "print"
              /\ ev[j].text = "Execution order:"
                              \o ExpectedSummaryFrom(execution_order, 1)
      IN IF last_run.verbose
         THEN /\ \A i \in 1..Len(ev) :
                    ev[i].ev = "start" =>
                        /\ i > 1
                        /\ ev[i - 1].ev = "print"
                        /\ ev[i - 1].node = ev[i].node
                        /\ ev[i - 1].text = "Running:  " \o Tags[ev[i].node]
              /\ last_run.raised = 0 =>
                    \E j \in 1..Len(ev) :
                        /\ printsSummary(j)
                        /\ \A i \in 1..Len(ev) : ev[i].ev = "return" => i < j
         ELSE last_run.raised = 0 =>
                 \A i \in 1..Len(ev) : ev[i].ev /= "print"

\* C6: summarize returns "Execution order:" and one line "{i}: {node}" per
\* node of the execution order, i from 0, joined by line breaks with none at
\* the end ("Execution order:", "0: A", "1: B", "2: C" for the chain A, B, C);
\* the call changes nothing else and every call returns the same text.
C6_SummaryText ==
    /\ [](summary /= NoSummary =>
            /\ summary = "Execution order:"
                         \o ExpectedSummaryFrom(execution_order, 1)
            /\ execution_order = <<1, 2, 3>> =>
                 summary = "Execution order:\n0: A\n1: B\n2: C")
    /\ [][summary' /= summary =>
            /\ summary = NoSummary
            /\ UNCHANGED <<upstream, cache_policy, built, execution_order,
                           calls, last_run>>]_vars

\* The summary of the chain A >> B >> C, asked for after a call of run.
C6_Witness ==
    /\ summary = "Execution order:\n0: A\n1: B\n2: C"
    /\ last_run.called

\* C7 as stated: once a call with no_cache has returned or raised, every
\* cacher's policy is the one it held before the call.
C7_PolicyRestored ==
    [][RunStep /\ last_run'.no_cache => cache_policy' = cache_policy]_vars

\* The nodes the last call started.
Started(run) == {run.events[i].node : i \in {j \in 1..Len(run.events) :
                                              run.events[j].ev = "start"}}

\* C7 amended: a call with no_cache leaves OFF in the cacher of every node it
\* started, whatever that held before, and nothing puts the earlier policy
\* back; the cachers of the nodes it did not start keep their policy.
C7_PolicyLeftOff ==
    [][RunStep /\ last_run'.no_cache =>
         \A n \in Nodes :
            cache_policy'[n] =
                IF n \in Started(last_run') /\ InitialCachers[n] /= "none"
                THEN "OFF"
                ELSE cache_policy[n]]_vars

\* A call with no_cache has left OFF in the cacher built with ON.
C7_Witness ==
    /\ last_run.no_cache
    /\ 3 \in Started(last_run)
    /\ cache_policy[3] = "OFF"

\* --------------------------------------------------- claims on the graph

\* C2: in the execution order Pipeline.__init__ gets, every upstream
\* dependency of a node, direct or not, stands at a strictly earlier index;
\* so in a call of run every upstream dependency of a node has returned
\* before the node starts.
C2_DependenciesFirst ==
    built =>
      /\ \A i \in 1..Len(execution_order) :
            \A u \in Upstream(upstream, execution_order[i]) :
                \E j \in 1..(i - 1) : execution_order[j] = u
      /\ last_run.called =>
            \A i \in 1..Len(last_run.events) :
                last_run.events[i].ev = "start" =>
                    \A u \in Upstream(upstream, last_run.events[i].node) :
                        \E j \in 1..(i - 1) :
                            /\ last_run.events[j].ev = "return"
                            /\ last_run.events[j].node = u

\* The diamond 1 -> 2, 1 -> 3, 2 -> 4, 3 -> 4 built, sorted from 4 and run.
C2_Witness ==
    /\ built
    /\ last_run.called
    /\ Len(execution_order) = 4
    /\ Range(upstream[4]) = {2, 3}
    /\ upstream[2] = <<1>>
    /\ upstream[3] = <<1>>

\* ------------------------------------------------ claims on the detector

\* C8: every index detect_threshold_crossings returns is a place where the
\* signal goes from a sample above the threshold to a sample at or under it,
\* never one where it comes back above the threshold.
C8_OnlyFallingCrossings ==
    det_pc = "done" =>
        \A k \in 1..Len(threshold_crossings) :
            LET i == threshold_crossings[k] + 1
            IN signal[i] > threshold /\ signal[i + 1] <= threshold

RECURSIVE KeptFrom(_, _, _, _)
\* What one scan in order keeps of cross[i..], the last kept being `last`.
KeptFrom(cross, i, last, d) ==
    IF i > Len(cross) THEN <<>>
    ELSE IF cross[i] - last >= d
         THEN <<cross[i]>> \o KeptFrom(cross, i + 1, cross[i], d)
         ELSE KeptFrom(cross, i + 1, last, d)

\* The first crossing, and each later one at least d after the last kept.
ScanKeeps(cross, d) ==
    IF cross = <<>> THEN <<>>
    ELSE <<cross[1]>> \o KeptFrom(cross, 2, cross[1], d)

\* C9: the dead-time filter ends (every turn of its loop removes a crossing)
\* and returns what one scan in order keeps of the crossings: the first, and
\* each later one at least dead_time * fs samples after the last kept.
C9_DeadTimeScan ==
    /\ det_pc = "while" /\ ~All(distance_sufficient) =>
          Len(Masked(threshold_crossings, distance_sufficient))
              < Len(threshold_crossings)
    /\ det_pc = "done" =>
          threshold_crossings =
              ScanKeeps(Crossings(signal, threshold), DeadTimeIdx)

\* --------------------------------------------------------- claims on burst

RECURSIVE RunEnd(_, _)
\* The last index of the run of ones of `mask` that holds index i.
RunEnd(mask, i) ==
    IF i < Len(mask) /\ mask[i + 1] = 1 THEN RunEnd(mask, i + 1) ELSE i

RECURSIVE BurstsFrom(_, _, _, _)
\* (start_time, burst_len) of the maximal runs of at least m ones in mask[i..]
BurstsFrom(spikes, mask, m, i) ==
    IF i > Len(mask) THEN <<>>
    ELSE IF mask[i] = 0 THEN BurstsFrom(spikes, mask, m, i + 1)
    ELSE LET e == RunEnd(mask, i)
         IN (IF e - i + 1 >= m THEN <<<<spikes[i], e - i + 2>>>> ELSE <<>>)
            \o BurstsFrom(spikes, mask, m, e + 1)

\* (start_time, burst_len) of the bursts that burst returned
Reported ==
    IF burst_out.scalars THEN <<>>
    ELSE [k \in 1..Len(burst_out.start_time) |->
             <<burst_out.start_time[k], burst_out.burst_len[k]>>]

\* C10: burst reports each maximal run of at least min_len intervals that are
\* <= min_isi as one burst, also a run that ends at the last interval, with
\* start_time the time of the run's first spike and burst_len the run's
\* number of spikes; no interval lies in two bursts.
C10_MaximalRuns ==
    burst_pc = "done" =>
        /\ Reported = BurstsFrom(spiketrain, BurstSpike(spiketrain, min_isi),
                                 min_len, 1)
        /\ \A k, l \in 1..Len(burst_Q) :
              k < l => burst_Q[k][1] + burst_Q[k][2] <= burst_Q[l][1]

=============================================================================
